---- MODULE Spec2Model ----
(***************************************************************************)
(* PersonsService (src/persons/persons.service.ts): fingerprint capture,   *)
(* quality record update and archive synchronisation.                      *)
(*                                                                         *)
(* createPersonFingerPrint and getFingerprintComparison are modelled one   *)
(* await at a time.  The quality records (personFingerprintRepository),    *)
(* the archive directory Person/Fingerprints/{personId}/ and the injected  *)
(* FtpService are shared by every invocation.                              *)
(***************************************************************************)
EXTENDS Integers, Sequences, FiniteSets, TLC

\* ---------------------------------------------------------------- bounds
MaxQuality == 3        \* quality scores submitted are 0..MaxQuality
MaxBatch == 2          \* scans per createPersonFingerPrint call
MaxAttempts == 5       \* submissions for a key are accepted while attempts < MaxAttempts
MaxParBatch == 1       \* scans per call when requests overlap

\* ------------------------------------------------------------- constants
AttemptsThreshold == 3 \* personFingerprint.attempts > 3
InitialAttempts == 1   \* PersonFingerprint.attempts of a newly saved entity
Infinity == 1000000    \* start value of the reduce that finds the minimum

\* --------------------------------------------------------------- domains
Procs == {1, 2}                   \* concurrently served requests
PersonIds == {1, 2}               \* ids a caller may send
PersonTable == {1}                \* persons that exist
FingerprintTypeTable == {1, 2}    \* fingerprint types that exist
FingerprintTypeIds == {1, 2, 3}   \* ids a caller may send (3: no such type)
Qualities == 0..MaxQuality

NoRecord == [none |-> TRUE]
NoScan == [none |-> TRUE]
NoNumber == -1                    \* file.name.match(/\d+/) is null

TypeName(t) == <<"name", t>>      \* fingerprintType.name
ShortName(t) == <<"short", t>>    \* fingerprintType.short_name

\* A file of the directory `Person/Fingerprints/${personId}/`: its name is the
\* short name, then either nothing or "_" and the decimal quality, then ".wsq".
\* number is what parseInt(file.name.match(/\d+/)[0]) yields for that name.
FileName(short, n) == [short_name |-> short, number |-> n]

\* `${initialPath}${fingerprintType.short_name}.wsq`
RecordPath(t) == FileName(ShortName(t), NoNumber)

\* `${initialPath}${short_name}_${quality}.wsq`
QualityPath(t, q) == FileName(ShortName(t), q)

\* the scans a caller sends: any quality for finger 1, the one quality
\* MaxQuality for the other ids, which keeps the second key's states few
Scans ==
    {s \in [fingerprintTypeId : FingerprintTypeIds, quality : Qualities] :
        s.fingerprintTypeId # 1 => s.quality = MaxQuality}

\* the scans sent when requests overlap: finger 1, the two best qualities
ParScans == {s \in Scans : s.fingerprintTypeId = 1 /\ s.quality >= MaxQuality - 1}

Min(S) == CHOOSE m \in S : \A n \in S : m <= n

Max(a, b) == IF a > b THEN a ELSE b

VARIABLES
    db,        \* personFingerprintRepository: type id -> record of person 1
    archive,   \* files of the archive directory of person 1
    ftpOpen,   \* the connection held by the injected FtpService
    call,      \* per request: locals of the running method
    best       \* history: type id -> best quality of the scans saved, -1 if none

vars == <<db, archive, ftpOpen, call, best>>

Idle ==
    [ pc |-> "idle", op |-> "none",
      length |-> 0,                 \* fingerprints.length
      i |-> 0,                      \* position of the fold, or of the for loop
      fingerprint |-> NoScan,       \* fingerprints[i]
      acc |-> [success |-> <<>>, error |-> <<>>],
      personFingerprint |-> NoRecord,
      created |-> FALSE,            \* the else branch of line 266 was taken
      files |-> {}, smallestNumber |-> Infinity,
      records |-> <<>>,             \* person.personFingerprints
      fingerprintsData |-> <<>>,
      result |-> "pending",
      \* history, read by the properties only
      order |-> <<>>,               \* type ids of the scans read so far, in batch order
      before |-> NoRecord,          \* the record findOne returned for fingerprints[i]
      archiveBefore |-> {},         \* the directory when fingerprints[i] was read
      listing |-> FALSE,            \* the branch of line 284 was taken for fingerprints[i]
      last |-> "pending",            \* how the scan read last ended
      acquired |-> 0, released |-> 0 ]

Init ==
    /\ db = [t \in FingerprintTypeTable |-> NoRecord]
    /\ archive \in {{}, {RecordPath(t) : t \in FingerprintTypeTable}}
    /\ ftpOpen = FALSE
    /\ call = [p \in Procs |-> Idle]
    /\ best = [t \in FingerprintTypeTable |-> NoNumber]

Set(p, r) == call' = [call EXCEPT ![p] = r]

\* ------------------------------------------------ createPersonFingerPrint

\* the branch taken one attempt later
OverThresholdLate(attempts) == attempts > AttemptsThreshold + 1

\* personFingerprint.attempts > 3
OverThreshold(attempts) == attempts > AttemptsThreshold

\* the stored quality overwritten by every scan
LatestQuality(old, quality) == quality

\* quality > personFingerprint.quality ? quality : personFingerprint.quality
ImprovedQuality(old, quality) == IF quality > old THEN quality ELSE old

\* files.filter(file => file.name.includes(short_name))
Matching(files, t) == {f \in files : f.short_name = ShortName(t)}

\* .map(...) sets quality_exist when a parsed number === quality
QualityExist(files, t, quality) == \E f \in Matching(files, t) : f.number = quality

\* .filter(Boolean): drops null and 0
Kept(files, t) == {f.number : f \in {g \in Matching(files, t) : g.number # NoNumber /\ g.number # 0}}

\* .reduce((min, num) => (num < min ? num : min), Infinity)
SmallestNumber(files, t) == Min(Kept(files, t) \cup {Infinity})

\* smallestNumber < quality && !quality_exist
ShouldReplace(files, t, quality) ==
    SmallestNumber(files, t) < quality /\ ~QualityExist(files, t, quality)

\* the path handed to uploadFile (line 282)
UploadPath(t, quality) == QualityPath(t, quality)

Cur(c) == c.fingerprint

\* the fold moves to the next scan or leaves the loop
Advance(c) ==
    [c EXCEPT !.i = c.i + 1,
              !.pc = IF c.i + 1 > c.length THEN "finish" ELSE "find"]

Success(c, kind) ==
    Advance([c EXCEPT !.acc.success = Append(@, TypeName(Cur(c).fingerprintTypeId)),
                      !.last = kind])

Failure(c) ==
    Advance([c EXCEPT !.acc.error = Append(@, TypeName(Cur(c).fingerprintTypeId)),
                      !.last = "error"])

\* the method has returned or thrown: its locals are gone, the answer and the
\* history of the call remain
Done(c, result) ==
    [Idle EXCEPT !.pc = "done", !.op = c.op, !.result = result,
                 !.length = c.length, !.i = c.i, !.acc = c.acc, !.order = c.order,
                 !.records = c.records, !.fingerprintsData = c.fingerprintsData,
                 !.acquired = c.acquired, !.released = c.released]

Fault(c) == Done(c, "fault")

\* lines 241-246: Promise.all([findOnePerson, connectToFtp])
CpfStart(p, maxLength) ==
    /\ call[p].pc = "idle"
    /\ \E personId \in PersonIds, length \in 0..maxLength, connected \in BOOLEAN :
         LET c0 == [Idle EXCEPT !.op = "create", !.length = length,
                                !.acquired = IF connected THEN 1 ELSE 0]
         IN  /\ ftpOpen' = (connected \/ ftpOpen)
             /\ IF personId \in PersonTable /\ connected
                THEN Set(p, [c0 EXCEPT !.i = 1,
                                       !.pc = IF length = 0 THEN "finish" ELSE "find"])
                ELSE Set(p, Fault(c0))
    /\ UNCHANGED <<db, archive, best>>

\* lines 251-280: findOne, then the in-memory update or the new entity
CpfFind(p, scans) ==
    \E fingerprint \in scans :
    LET c == call[p]
        t == fingerprint.fingerprintTypeId
        quality == fingerprint.quality
        found == IF t \in FingerprintTypeTable THEN db[t] ELSE NoRecord
        clean == [c EXCEPT !.fingerprint = fingerprint, !.order = Append(@, t),
                           !.before = found, !.archiveBefore = archive, !.last = "pending",
                           !.files = {}, !.listing = FALSE, !.smallestNumber = Infinity]
    IN  /\ c.pc = "find"
        /\ found # NoRecord => found.attempts < MaxAttempts
        /\ IF found # NoRecord
           THEN Set(p, [clean EXCEPT !.pc = "save", !.created = FALSE,
                          !.personFingerprint =
                              [found EXCEPT !.quality = ImprovedQuality(found.quality, quality),
                                            !.attempts = found.attempts + 1]])
           ELSE IF t \notin FingerprintTypeTable
           THEN Set(p, Fault(clean))
           ELSE Set(p, [clean EXCEPT !.pc = "save", !.created = TRUE,
                          !.personFingerprint =
                              [quality |-> quality, attempts |-> InitialAttempts,
                               path |-> RecordPath(t), fingerprintType |-> t]])
        /\ UNCHANGED <<db, archive, ftpOpen, best>>

\* line 281: save; line 284: the branch on attempts
CpfSave(p) ==
    LET c == call[p]
        t == Cur(c).fingerprintTypeId
    IN  /\ c.pc = "save"
        /\ \E saved \in BOOLEAN :
             IF saved
             THEN /\ db' = [db EXCEPT ![t] = c.personFingerprint]
                  /\ best' = [best EXCEPT ![t] = Max(@, Cur(c).quality)]
                  /\ Set(p, [c EXCEPT !.listing = OverThreshold(c.personFingerprint.attempts),
                                      !.pc = IF OverThreshold(c.personFingerprint.attempts)
                                             THEN "list" ELSE "upload"])
             ELSE /\ db' = db
                  /\ best' = best
                  /\ Set(p, Fault(c))
        /\ UNCHANGED <<archive, ftpOpen>>

\* lines 285-299: listFiles and the decision
CpfList(p) ==
    LET c == call[p]
        t == Cur(c).fingerprintTypeId
        quality == Cur(c).quality
    IN  /\ c.pc = "list"
        /\ \E transferred \in BOOLEAN :
             IF transferred /\ ftpOpen
             THEN LET d == [c EXCEPT !.files = archive,
                                     !.smallestNumber = SmallestNumber(archive, t)]
                  IN  IF ShouldReplace(archive, t, quality)
                      THEN Set(p, [d EXCEPT !.pc = "remove"])
                      ELSE Set(p, Success(d, "kept"))
             ELSE Set(p, Failure(c))
        /\ UNCHANGED <<db, archive, ftpOpen, best>>

\* lines 300-301: removeFile
CpfRemove(p) ==
    LET c == call[p]
        t == Cur(c).fingerprintTypeId
        remove_path == QualityPath(t, c.smallestNumber)
    IN  /\ c.pc = "remove"
        /\ \E transferred \in BOOLEAN :
             IF transferred /\ ftpOpen /\ remove_path \in archive
             THEN /\ archive' = archive \ {remove_path}
                  /\ Set(p, [c EXCEPT !.pc = "upload"])
             ELSE /\ archive' = archive
                  /\ Set(p, Failure(c))
        /\ UNCHANGED <<db, ftpOpen, best>>

\* lines 302 and 305: uploadFile
CpfUpload(p) ==
    LET c == call[p]
        t == Cur(c).fingerprintTypeId
        quality == Cur(c).quality
    IN  /\ c.pc = "upload"
        /\ \E transferred \in BOOLEAN :
             IF transferred /\ ftpOpen
             THEN /\ archive' = archive \cup {UploadPath(t, quality)}
                  /\ Set(p, Success(c, IF c.listing THEN "evict" ELSE "upload"))
             ELSE /\ archive' = archive
                  /\ Set(p, Failure(c))
        /\ UNCHANGED <<db, ftpOpen, best>>

\* lines 316-331: onDestroy and the report
CpfFinish(p) ==
    LET c == call[p]
    IN  /\ c.pc = "finish"
        /\ ftpOpen' = FALSE
        /\ Set(p, Done([c EXCEPT !.released = c.released + 1], "report"))
        /\ UNCHANGED <<db, archive, best>>

\* ----------------------------------------------- getFingerprintComparison

RECURSIVE SetToSeq(_)
SetToSeq(S) == IF S = {} THEN <<>> ELSE LET m == Min(S) IN <<m>> \o SetToSeq(S \ {m})

\* person.personFingerprints as loaded by findOnePerson
PersonFingerprints ==
    LET ts == SetToSeq({t \in FingerprintTypeTable : db[t] # NoRecord})
    IN  [k \in 1..Len(ts) |-> db[ts[k]]]

\* lines 347-353
GfcStart(p) ==
    /\ call[p].pc = "idle"
    /\ \E personId \in PersonIds :
         LET c0 == [Idle EXCEPT !.op = "compare"]
         IN  IF personId \in PersonTable /\ PersonFingerprints # <<>>
             THEN Set(p, [c0 EXCEPT !.pc = "connect", !.records = PersonFingerprints])
             ELSE Set(p, Fault(c0))
    /\ UNCHANGED <<db, archive, ftpOpen, best>>

\* line 356
GfcConnect(p) ==
    LET c == call[p]
    IN  /\ c.pc = "connect"
        /\ \E connected \in BOOLEAN :
             IF connected
             THEN /\ ftpOpen' = TRUE
                  /\ Set(p, [c EXCEPT !.pc = "download", !.i = 1, !.acquired = 1])
             ELSE /\ ftpOpen' = ftpOpen
                  /\ Set(p, [c EXCEPT !.pc = "finally", !.result = "fault"])
        /\ UNCHANGED <<db, archive, best>>

\* a failed download skipped instead of rethrown
GfcDownloadSkipping(p) ==
    LET c == call[p]
        fingerprint == c.records[c.i]
        next == [c EXCEPT !.i = c.i + 1,
                          !.pc = IF c.i + 1 > Len(c.records) THEN "finally" ELSE "download"]
    IN  /\ c.pc = "download"
        /\ \E transferred \in BOOLEAN :
             IF transferred /\ ftpOpen /\ fingerprint.path \in archive
             THEN Set(p, [next EXCEPT !.fingerprintsData = Append(@, fingerprint)])
             ELSE Set(p, next)
        /\ UNCHANGED <<db, archive, ftpOpen, best>>

\* lines 357-372
GfcDownload(p) ==
    LET c == call[p]
        fingerprint == c.records[c.i]
    IN  /\ c.pc = "download"
        /\ \E transferred \in BOOLEAN :
             IF transferred /\ ftpOpen /\ fingerprint.path \in archive
             THEN Set(p, [c EXCEPT !.fingerprintsData = Append(@, fingerprint),
                                   !.i = c.i + 1,
                                   !.pc = IF c.i + 1 > Len(c.records)
                                          THEN "finally" ELSE "download"])
             ELSE Set(p, [c EXCEPT !.pc = "finally", !.result = "fault"])
        /\ UNCHANGED <<db, archive, ftpOpen, best>>

\* lines 373-376
GfcFinally(p) ==
    LET c == call[p]
    IN  /\ c.pc = "finally"
        /\ ftpOpen' = FALSE
        /\ Set(p, Done([c EXCEPT !.released = c.released + 1],
                        IF c.result = "fault" THEN "fault" ELSE "data"))
        /\ UNCHANGED <<db, archive, best>>

\* the caller has its answer; the request slot is free again
Return(p) ==
    /\ call[p].pc = "done"
    /\ Set(p, Idle)
    /\ UNCHANGED <<db, archive, ftpOpen, best>>

Step(p, maxLength, scans) ==
    \/ CpfStart(p, maxLength)
    \/ CpfFind(p, scans)
    \/ CpfSave(p)
    \/ CpfList(p)
    \/ CpfRemove(p)
    \/ CpfUpload(p)
    \/ CpfFinish(p)
    \/ GfcStart(p)
    \/ GfcConnect(p)
    \/ GfcDownload(p)
    \/ GfcFinally(p)
    \/ Return(p)

\* requests served one after another
Next == Step(1, MaxBatch, Scans)

Spec == Init /\ [][Next]_vars

\* requests overlapping, each with a batch of at most MaxParBatch scans of type 1
NextPar == \E p \in Procs : Step(p, MaxParBatch, ParScans)

SpecPar == Init /\ [][NextPar]_vars

\* ------------------------------------------------------------ properties

Type(c) == c.fingerprint.fingerprintTypeId
Quality(c) == c.fingerprint.quality

\* the record of fingerprints[i] has been saved
Saved(c) ==
    /\ c.op = "create"
    /\ c.fingerprint # NoScan
    /\ c.pc \in {"list", "remove", "upload"} \/ c.last # "pending"

\* fingerprints[i] has been processed and no archive operation failed for it
Ended(c) == c.op = "create" /\ c.last \in {"upload", "evict", "kept"}

\* the files of a finger that carry a quality
Variants(files, t) == {f \in Matching(files, t) : f.number # NoNumber}

LowestVariant(files, t) ==
    CHOOSE f \in Variants(files, t) : \A g \in Variants(files, t) : f.number <= g.number

\* C1: a scan for a key without a record, with no transfer failure, creates
\* exactly one file, at the path without suffix, and leaves attempts = 1.
C1_FirstFileAtRecordPath ==
    \A p \in Procs :
        LET c == call[p]
        IN  (Ended(c) /\ c.created) =>
                /\ archive = c.archiveBefore \cup {RecordPath(Type(c))}
                /\ db[Type(c)].attempts = 1

\* s and e are what is left of o when it is split in two, order kept
RECURSIVE Splits(_, _, _)
Splits(o, s, e) ==
    IF o = <<>> THEN s = <<>> /\ e = <<>>
    ELSE \/ s # <<>> /\ Head(s) = Head(o) /\ Splits(Tail(o), Tail(s), e)
         \/ e # <<>> /\ Head(e) = Head(o) /\ Splits(Tail(o), s, Tail(e))

\* C2: once the loop is entered the call never aborts: it returns the report,
\* whose success and error lists hold one name per scan of the batch, each list
\* in batch order.
C2_NoBatchAbort ==
    \A p \in Procs :
        LET c == call[p]
        IN  (c.op = "create" /\ c.pc = "done" /\ c.i >= 1) =>
                /\ c.result = "report"
                /\ Len(c.acc.success) + Len(c.acc.error) = c.length
                /\ Splits([k \in 1..Len(c.order) |-> TypeName(c.order[k])],
                          c.acc.success, c.acc.error)

\* C3: a call of createPersonFingerPrint that acquired the connection has
\* released it exactly once when it ends.
C3_ReleasedOnEveryExit ==
    \A p \in Procs :
        LET c == call[p]
        IN  (c.op = "create" /\ c.pc = "done" /\ c.acquired = 1) => c.released = 1

\* C4 as stated: on an existing record the list/evict branch is taken exactly
\* when attempts was above 3 before the call.
C4_BranchOnAttemptsBefore ==
    \A p \in Procs :
        LET c == call[p]
        IN  (Saved(c) /\ c.before # NoRecord) =>
                (c.listing <=> c.before.attempts > AttemptsThreshold)

\* C4 amended: on an existing record the branch is taken on attempts after the
\* increment: plain upload at the quality path, nothing listed or removed, when
\* attempts was at most 2 before the call, the list/evict branch when it was 3
\* or more; so no finger ever has more than three variants.
C4_BranchOnAttemptsAfter ==
    /\ \A p \in Procs :
        LET c == call[p]
        IN  (Saved(c) /\ c.before # NoRecord) =>
                /\ c.listing <=> c.before.attempts >= AttemptsThreshold
                /\ (c.last = "upload") =>
                       /\ c.before.attempts < AttemptsThreshold
                       /\ archive = c.archiveBefore \cup {QualityPath(Type(c), Quality(c))}
    /\ \A t \in FingerprintTypeTable : Cardinality(Variants(archive, t)) <= AttemptsThreshold

\* the fourth submission for a key went through the list/evict branch and
\* replaced a file, with three variants in the directory
C4_Witness ==
    LET c == call[1]
    IN  /\ Saved(c) /\ c.before # NoRecord
        /\ c.before.attempts = AttemptsThreshold
        /\ c.last = "evict"
        /\ Cardinality(Variants(archive, Type(c))) = AttemptsThreshold

\* C5: on the list/evict branch, when the lowest quality among the finger's
\* variants is below the new quality and no variant has the new quality, the
\* lowest variant is replaced by the new file; otherwise the directory is
\* unchanged.
C5_EvictLowest ==
    \A p \in Procs :
        LET c == call[p]
            V == Variants(c.archiveBefore, Type(c))
        IN  (Ended(c) /\ c.listing) =>
                IF /\ V # {}
                   /\ LowestVariant(c.archiveBefore, Type(c)).number < Quality(c)
                   /\ QualityPath(Type(c), Quality(c)) \notin V
                THEN /\ archive = (c.archiveBefore \ {LowestVariant(c.archiveBefore, Type(c))})
                                      \cup {QualityPath(Type(c), Quality(c))}
                     /\ Cardinality(archive) = Cardinality(c.archiveBefore)
                ELSE archive = c.archiveBefore

\* once the record of a scan on an existing key is saved, whatever the archive
\* then does, attempts is one more than before and quality is the larger of
\* the old and the new quality; the quality of a record is the best quality
\* saved for its key
C6_State ==
    /\ \A p \in Procs :
        LET c == call[p]
        IN  (Saved(c) /\ c.before # NoRecord) =>
                /\ db[Type(c)].attempts = c.before.attempts + 1
                /\ db[Type(c)].quality = Max(c.before.quality, Quality(c))
    /\ \A t \in FingerprintTypeTable : db[t] # NoRecord => db[t].quality = best[t]

\* C6: C6_State in every state, and no step lowers the attempts or the quality
\* of a record or deletes it.
C6_AttemptsAndQuality ==
    /\ []C6_State
    /\ [][\A t \in FingerprintTypeTable :
            db[t] # NoRecord => /\ db'[t] # NoRecord
                                /\ db'[t].attempts >= db[t].attempts
                                /\ db'[t].quality >= db[t].quality]_vars

\* a lower scan on an existing record ended in a transfer failure, the record
\* updated all the same
C6_Witness ==
    LET c == call[1]
    IN  /\ Saved(c) /\ c.before # NoRecord
        /\ c.last = "error"
        /\ Quality(c) < c.before.quality
        /\ db[Type(c)].attempts = AttemptsThreshold + 1

\* C7: getFingerprintComparison without records fails and never connects; it
\* returns data only when every record was downloaded; a connection acquired
\* is released exactly once.
C7_AllOrNothing ==
    \A p \in Procs :
        LET c == call[p]
        IN  c.op = "compare" =>
                /\ c.records = <<>> =>
                       c.pc = "done" /\ c.result = "fault" /\ c.acquired = 0 /\ c.released = 0
                /\ c.released <= c.acquired \/ c.result = "fault"
                /\ c.released <= 1
                /\ c.pc = "done" =>
                       /\ c.acquired = 1 => c.released = 1
                       /\ c.result \in {"data", "fault"}
                       /\ c.result = "data" =>
                              c.fingerprintsData = c.records /\ c.records # <<>>
                       /\ c.fingerprintsData # c.records => c.result = "fault"

\* the second of two downloads failed: the call failed, holding one
\* downloaded file, its connection released once
C7_Witness ==
    LET c == call[1]
    IN  /\ c.op = "compare" /\ c.pc = "done"
        /\ Len(c.records) = 2 /\ Len(c.fingerprintsData) = 1
        /\ c.result = "fault"
        /\ c.acquired = 1 /\ c.released = 1

\* C8: while a call is between acquiring and releasing its connection, the
\* connection is open, whatever another call does.
C8_OwnConnection ==
    \A p \in Procs :
        LET c == call[p]
        IN  (c.acquired = 1 /\ c.released = 0 /\ c.pc # "done") => ftpOpen

\* C9: a scan for a key that already has four or more attempts never adds to
\* the finger's variants: it leaves them as they are or replaces the lowest
\* of them by a better quality that was not there.
C9_BoundedRetention ==
    \A p \in Procs :
        LET c == call[p]
            V == Variants(c.archiveBefore, Type(c))
            W == Variants(archive, Type(c))
            new == QualityPath(Type(c), Quality(c))
        IN  (Ended(c) /\ c.before # NoRecord /\ c.before.attempts > AttemptsThreshold) =>
                /\ Cardinality(W) <= Cardinality(V)
                /\ \/ W = V
                   \/ /\ V # {}
                      /\ W = (V \ {LowestVariant(c.archiveBefore, Type(c))}) \cup {new}
                      /\ new \notin V
                      /\ new.number > LowestVariant(c.archiveBefore, Type(c)).number

\* C10: after a scan whose archive operations all succeeded, the path of the
\* key's record names a file of the archive.
C10_RecordPathExists ==
    \A p \in Procs :
        LET c == call[p]
        IN  Ended(c) => db[Type(c)].path \in archive
====
